---- MODULE Spec2Model ----
(***************************************************************************)
(* Model of process_logo.py: process_logo_high_res(), the pipeline that    *)
(* keys near-black pixels to transparency, crops to content, removes a     *)
(* trailing text band found by a row-coverage scan, crops again and saves. *)
(*                                                                         *)
(* An image is a record [width, height, px]; px[y][x] is the pixel of row  *)
(* y-1 and column x-1 (the code's indices are 0-based, sequences 1-based). *)
(* A pixel is <<r, g, b, a>> with 8-bit channels.                          *)
(***************************************************************************)
EXTENDS Integers, Sequences, FiniteSets

VARIABLES
    pc,           \* the statement the function is about to execute
    input_file,   \* what is stored at input_path (NoImage: missing/unreadable)
    output_file,  \* what is stored at output_path (NoImage: no file)
    img,          \* line 9
    new_img,      \* lines 32, 37
    row_sums,     \* line 42
    split_point,  \* lines 44, 50
    final_logo,   \* lines 53, 56
    printed       \* what print() has written: <<>>, <<"Processed">> or <<"Error", stage>>

vars == <<pc, input_file, output_file, img, new_img, row_sums, split_point,
          final_logo, printed>>

----------------------------------------------------------------------------
(* Bounds of the checked input families.                                   *)

\* single-pixel family: red in 0..MaxRed, green in 0..MaxGreen
MaxRed == 61
MaxGreen == 21
\* box family: images of at most MaxW x MaxH pixels with at most MaxLit
\* pixels that key to a non-zero alpha
MaxW == 3
MaxH == 3
MaxLit == 2
\* column family: ColH rows, the last 1..MaxFree of them free
ColH == 17
MaxFree == 9
\* uniform family: one colour, up to MaxUniW x MaxUniH
MaxUniW == 2
MaxUniH == 13
\* scenario family: 100 x 100 images, a gap of 1..MaxGapLen rows starting
\* at a row in 60-GapSlack..60+GapSlack
MaxGapLen == 6
GapSlack == 2

----------------------------------------------------------------------------
(* Values.                                                                 *)

NoImage == [width |-> 0, height |-> 0, px |-> <<>>]
None == <<>>

Black == <<0, 0, 0, 255>>
White == <<255, 255, 255, 255>>

Max(a, b) == IF a >= b THEN a ELSE b
Min(a, b) == IF a <= b THEN a ELSE b

RECURSIVE SeqSum(_)
SeqSum(s) == IF s = <<>> THEN 0 ELSE Head(s) + SeqSum(Tail(s))

----------------------------------------------------------------------------
(* Keying, lines 14-32.                                                    *)

lower == 20
upper == 60

\* r**2 + g**2 + b**2; dist (line 19) is its square root
DistSq(p) == p[1] * p[1] + p[2] * p[2] + p[3] * p[3]

\* np.clip((dist - lower) / (upper - lower), 0, 1) * 255 followed by
\* astype(np.uint8) (lines 28, 32), which drops the fraction.  dist is the
\* square root of the integer s, so the comparisons are made on squares:
\*   dist <= lower   iff  s <= lower^2
\*   dist >= upper   iff  s >= upper^2
\*   a <= 255 * (dist - lower) / (upper - lower)
\*                   iff  (a*(upper-lower) + 255*lower)^2 <= 255^2 * s
\* (float64 evaluation gives the same integer for every s in the ramp.)

\* the same with the value rounded to the nearest integer, halves up
AlphaRounded(s) ==
    LET Fits(a) == ((2 * a - 1) * (upper - lower) + 510 * lower)
                       * ((2 * a - 1) * (upper - lower) + 510 * lower)
                       <= 510 * 510 * s
    IN  IF s <= lower * lower THEN 0
        ELSE IF s >= upper * upper THEN 255
        ELSE CHOOSE a \in 0..255 : Fits(a) /\ (a = 255 \/ ~Fits(a + 1))

\* the same without the lower clip: a negative value is cut towards zero
\* and wraps into 0..255
AlphaNoLowerClip(s) ==
    LET Fits(a) == (a * (upper - lower) + 255 * lower) * (a * (upper - lower) + 255 * lower)
                       <= 255 * 255 * s
        Under(k) == 255 * 255 * s
                       <= (255 * lower - k * (upper - lower)) * (255 * lower - k * (upper - lower))
    IN  IF s < lower * lower
        THEN (256 - (CHOOSE k \in 0..127 : Under(k) /\ (k = 127 \/ ~Under(k + 1)))) % 256
        ELSE IF s >= upper * upper THEN 255
        ELSE CHOOSE a \in 0..255 : Fits(a) /\ (a = 255 \/ ~Fits(a + 1))

AlphaOfDist(s) ==
    LET Fits(a) == (a * (upper - lower) + 255 * lower) * (a * (upper - lower) + 255 * lower)
                       <= 255 * 255 * s
    IN  IF s <= lower * lower THEN 0
        ELSE IF s >= upper * upper THEN 255
        ELSE CHOOSE a \in 0..255 : Fits(a) /\ (a = 255 \/ ~Fits(a + 1))

\* new_alpha of one pixel
NewAlpha(p) == AlphaOfDist(DistSq(p))

\* data[..., 3] = new_alpha; Image.fromarray(data.astype(np.uint8))
Keyed(im) ==
    [im EXCEPT !.px = [y \in 1..im.height |->
                          [x \in 1..im.width |->
                              <<im.px[y][x][1], im.px[y][x][2], im.px[y][x][3],
                                NewAlpha(im.px[y][x])>>]]]

----------------------------------------------------------------------------
(* Bounding box and crop, lines 35-37 and 55-56.                           *)

\* Image.getbbox() of an RGBA image: the box (left, upper, right, lower),
\* right and lower exclusive, of the pixels whose alpha is not zero, or
\* None when there is none
GetBBox(im) ==
    LET rows == { y \in 1..im.height : \E x \in 1..im.width : im.px[y][x][4] > 0 }
        cols == { x \in 1..im.width : \E y \in 1..im.height : im.px[y][x][4] > 0 }
        lo(S) == CHOOSE m \in S : \A n \in S : m <= n
        hi(S) == CHOOSE m \in S : \A n \in S : m >= n
    IN  IF rows = {} THEN None
        ELSE <<lo(cols) - 1, lo(rows) - 1, hi(cols), hi(rows)>>

\* Image.crop(box) for a box inside the image
Crop(im, box) ==
    LET w == Max(box[3] - box[1], 0)
        h == Max(box[4] - box[2], 0)
    IN  [width |-> w, height |-> h,
         px |-> [y \in 1..h |-> [x \in 1..w |-> im.px[y + box[2]][x + box[1]]]]]

\* the crop with right and lower taken as inclusive
CropShort(im) ==
    LET bbox == GetBBox(im)
    IN  IF bbox # None
        THEN Crop(im, <<bbox[1], bbox[2], bbox[3] - 1, bbox[4] - 1>>)
        ELSE im

\* the crop that keeps the origin and trims only right and below
CropLoose(im) ==
    LET bbox == GetBBox(im)
    IN  IF bbox # None
        THEN Crop(im, <<0, 0, bbox[3], bbox[4]>>)
        ELSE im

\* bbox = im.getbbox(); if bbox: im = im.crop(bbox)
CropToBBox(im) ==
    LET bbox == GetBBox(im)
    IN  IF bbox # None THEN Crop(im, bbox) ELSE im

----------------------------------------------------------------------------
(* Text-band scan, lines 40-51.                                            *)

\* np.sum(alpha_channel, axis=1): entry y+1 is the coverage of row y
RowSums(im) ==
    [y \in 1..im.height |-> SeqSum([x \in 1..im.width |-> im.px[y][x][4]])]

\* sum(rs[y:y+5]); a Python slice stops at the end of the sequence
WindowSum(rs, y) == SeqSum(SubSeq(rs, y + 1, Min(y + 5, Len(rs))))

IsGap(rs, y) == rs[y + 1] < 10 /\ WindowSum(rs, y) < 50

RECURSIVE LookForGap(_, _, _)
\* the for loop of lines 47-51 from index y on; stop is height - 5
LookForGap(rs, y, stop) ==
    IF y >= stop THEN Len(rs)
    ELSE IF IsGap(rs, y) THEN y
    ELSE LookForGap(rs, y + 1, stop)

\* the scan started at row 0 instead of the middle row
SplitFromTop(rs) == LookForGap(rs, 0, Len(rs) - 5)

RECURSIVE LastGap(_, _, _, _)
LastGap(rs, y, stop, found) ==
    IF y >= stop THEN found
    ELSE LastGap(rs, y + 1, stop, IF IsGap(rs, y) THEN y ELSE found)

\* the scan without its break: the last gap of the range wins
SplitNoBreak(rs) == LastGap(rs, Len(rs) \div 2, Len(rs) - 5, Len(rs))

\* the scan started at four fifths of the height
SplitLate(rs) == LookForGap(rs, (Len(rs) * 4) \div 5, Len(rs) - 5)

\* the scan with split_point initialised to 0 instead of height
SplitDefaultZero(rs) ==
    LET y == LookForGap(rs, Len(rs) \div 2, Len(rs) - 5)
    IN  IF y = Len(rs) THEN 0 ELSE y

\* split_point after lines 43-51: range(int(height * 0.5), height - 5)
SplitPoint(rs) == LookForGap(rs, Len(rs) \div 2, Len(rs) - 5)

----------------------------------------------------------------------------
(* Input families.                                                         *)

OnePixel(p) == [width |-> 1, height |-> 1, px |-> << <<p>> >>]

PixelImages ==
    { OnePixel(<<r, g, b, a>>) : r \in 0..MaxRed, g \in 0..MaxGreen,
                                 b \in {0, 20, 255}, a \in {0, 255} }

Faint == <<19, 10, 0, 255>>     \* keys to alpha 9
Lit == <<255, 255, 255, 0>>     \* keys to alpha 255, stored with alpha 0

\* black images with the pixels of a set of at most MaxLit cells set to c
BoxImages ==
    UNION { { [width |-> w, height |-> h,
               px |-> [y \in 1..h |-> [x \in 1..w |->
                          IF <<x, y>> \in S THEN c ELSE Black]]] :
                S \in { T \in SUBSET ((1..w) \X (1..h)) : Cardinality(T) <= MaxLit },
                c \in {Faint, Lit} } :
            w \in 1..MaxW, h \in 1..MaxH }

\* one column of ColH rows: a head row, rows of one colour, then the free
\* rows t, each White or the colour off
ColumnImages ==
    { [width |-> 1, height |-> ColH,
       px |-> [y \in 1..ColH |->
                  IF y = 1 THEN <<top[1]>>
                  ELSE IF y <= ColH - Len(t) THEN <<top[2]>>
                  ELSE <<IF t[y - (ColH - Len(t))] = 1 THEN White ELSE off>>]] :
        top \in { <<White, Black>>, <<Faint, Faint>>, <<Black, White>> },
        off \in { Black, Faint },
        t \in UNION { [1..k -> {0, 1}] : k \in 1..MaxFree } }

\* keyed alpha 0, 9, 10, 127, 255
UniformPalette ==
    { <<0, 0, 0, 0>>, Black, Faint, <<21, 5, 0, 255>>,
      <<40, 0, 0, 255>>, White }

UniformImages ==
    { [width |-> w, height |-> h, px |-> [y \in 1..h |-> [x \in 1..w |-> c]]] :
        w \in 1..MaxUniW, h \in 1..MaxUniH, c \in UniformPalette }

\* 100 x 100, colour c except black rows gap..gap+len-1 and band..99
Scenario(c, gap, len, band) ==
    [width |-> 100, height |-> 100,
     px |-> [y \in 1..100 |->
                [x \in 1..100 |->
                    IF (gap <= y - 1 /\ y - 1 < gap + len) \/ y - 1 >= band
                    THEN Black ELSE c]]]

ScenarioColours == { <<100, 0, 0, 255>>, <<60, 80, 0, 255>> }

ScenarioImages ==
    { Scenario(c, gap, len, band) :
        c \in ScenarioColours, gap \in (60 - GapSlack)..(60 + GapSlack),
        len \in 1..MaxGapLen, band \in {80} }

----------------------------------------------------------------------------
(* The pipeline.                                                           *)

OldFile == OnePixel(White)

InitWith(inputs, outputs) ==
    /\ pc = "open"
    /\ input_file \in inputs \cup {NoImage}
    /\ output_file \in outputs
    /\ img = NoImage
    /\ new_img = NoImage
    /\ row_sums = <<>>
    /\ split_point = 0
    /\ final_logo = NoImage
    /\ printed = <<>>

\* line 9: Image.open(input_path).convert("RGBA")
Open ==
    /\ pc = "open"
    /\ input_file # NoImage
    /\ img' = input_file
    /\ pc' = "key"
    /\ UNCHANGED <<input_file, output_file, new_img, row_sums, split_point,
                   final_logo, printed>>

\* lines 14-32
Key ==
    /\ pc = "key"
    /\ new_img' = Keyed(img)
    /\ pc' = "crop_content"
    /\ UNCHANGED <<input_file, output_file, img, row_sums, split_point,
                   final_logo, printed>>

\* lines 35-37
CropContent ==
    /\ pc = "crop_content"
    /\ new_img' = CropToBBox(new_img)
    /\ pc' = "scan"
    /\ UNCHANGED <<input_file, output_file, img, row_sums, split_point,
                   final_logo, printed>>

\* lines 40-51
Scan ==
    /\ pc = "scan"
    /\ row_sums' = RowSums(new_img)
    /\ split_point' = SplitPoint(RowSums(new_img))
    /\ pc' = "crop_text"
    /\ UNCHANGED <<input_file, output_file, img, new_img, final_logo, printed>>

\* line 53
CropText ==
    /\ pc = "crop_text"
    /\ final_logo' = Crop(new_img, <<0, 0, new_img.width, split_point>>)
    /\ pc' = "crop_final"
    /\ UNCHANGED <<input_file, output_file, img, new_img, row_sums, split_point,
                   printed>>

\* lines 55-56
CropFinal ==
    /\ pc = "crop_final"
    /\ final_logo' = CropToBBox(final_logo)
    /\ pc' = "save"
    /\ UNCHANGED <<input_file, output_file, img, new_img, row_sums, split_point,
                   printed>>

\* line 58, the save succeeds
Save ==
    /\ pc = "save"
    /\ output_file' = final_logo
    /\ pc' = "print"
    /\ UNCHANGED <<input_file, img, new_img, row_sums, split_point, final_logo,
                   printed>>

\* line 59
PrintProcessed ==
    /\ pc = "print"
    /\ printed' = <<"Processed">>
    /\ pc' = "done"
    /\ UNCHANGED <<input_file, output_file, img, new_img, row_sums, split_point,
                   final_logo>>

BeforeSave == {"open", "key", "crop_content", "scan", "crop_text", "crop_final"}

\* the failure path of a run that opened output_path for writing first
RaiseTruncating ==
    /\ pc \in BeforeSave
    /\ printed' = <<"Error", pc>>
    /\ output_file' = NoImage
    /\ pc' = "failed"
    /\ UNCHANGED <<input_file, img, new_img, row_sums, split_point, final_logo>>

\* lines 8, 61-62: a statement before the save raises (the input is missing
\* or does not decode, memory runs out); the handler prints and returns
Raise ==
    /\ pc \in BeforeSave
    /\ printed' = <<"Error", pc>>
    /\ pc' = "failed"
    /\ UNCHANGED <<input_file, output_file, img, new_img, row_sums, split_point,
                   final_logo>>

\* lines 58, 61-62: the save raises; the file is untouched (it could not be
\* opened) or gone (a file the save created is removed, an old one is lost)
SaveRaise ==
    /\ pc = "save"
    /\ output_file' \in {output_file, NoImage}
    /\ printed' = <<"Error", pc>>
    /\ pc' = "failed"
    /\ UNCHANGED <<input_file, img, new_img, row_sums, split_point, final_logo>>

Next ==
    \/ Open
    \/ Key
    \/ CropContent
    \/ Scan
    \/ CropText
    \/ CropFinal
    \/ Save
    \/ PrintProcessed
    \/ Raise
    \/ SaveRaise

Init == InitWith(BoxImages \cup UniformImages, {NoImage, OldFile})
InitColumn == InitWith(ColumnImages \cup BoxImages \cup UniformImages, {NoImage})
InitPixel == InitWith(PixelImages, {NoImage})
InitScenario == InitWith(ScenarioImages, {NoImage})

Spec == Init /\ [][Next]_vars
SpecColumn == InitColumn /\ [][Next]_vars
SpecPixel == InitPixel /\ [][Next]_vars
SpecScenario == InitScenario /\ [][Next]_vars

----------------
(* Properties.                                                             *)

HasContent(im) ==
    \E y \in 1..im.height : \E x \in 1..im.width : im.px[y][x][4] > 0

\* coverage of row y (0-based) of im, and of the five rows from y on
Coverage(im, y) == SeqSum([x \in 1..im.width |-> im.px[y + 1][x][4]])
Coverage5(im, y) ==
    Coverage(im, y) + Coverage(im, y + 1) + Coverage(im, y + 2)
        + Coverage(im, y + 3) + Coverage(im, y + 4)

\* the rows of the scan range of im that qualify as a gap
Qualifying(im) ==
    { y \in (im.height \div 2)..(im.height - 6) :
        Coverage(im, y) < 10 /\ Coverage5(im, y) < 50 }

\* C1: after the scan the split point is the first row of the range
\* floor(h/2) .. h-6 whose coverage is below 10 and whose five-row coverage
\* is below 50, later such rows being ignored, and h when there is none.
C1_FirstGap ==
    pc = "crop_text" =>
        IF Qualifying(new_img) = {}
        THEN split_point = new_img.height
        ELSE /\ split_point \in Qualifying(new_img)
             /\ \A y \in Qualifying(new_img) : split_point <= y

\* two rows qualify and an earlier row of the range has coverage below 10
\* but a five-row coverage of 50 or more
C1_Witness ==
    /\ pc = "crop_text"
    /\ Cardinality(Qualifying(new_img)) >= 2
    /\ \E y \in (new_img.height \div 2)..(new_img.height - 6) :
          y < split_point /\ Coverage(new_img, y) < 10

AllBlack(im) ==
    \A y \in 1..im.height : \A x \in 1..im.width : DistSq(im.px[y][x]) = 0

\* C2: an input whose pixels all have magnitude 0 is saved with the
\* input's width and height and alpha 0 everywhere.
C2_TransparentKeepsSize ==
    (pc \in {"print", "done"} /\ AllBlack(input_file)) =>
        /\ output_file.width = input_file.width
        /\ output_file.height = input_file.height
        /\ ~HasContent(output_file)

\* the single pixel of the image and its squared magnitude
ThePixel(im) == im.px[1][1]

InRamp(s) == lower * lower < s /\ s < upper * upper

\* a <= 255 * (sqrt(s) - 20) / 40 < a + 1
IsFloorOfRamp(a, s) ==
    /\ (40 * a + 5100) * (40 * a + 5100) <= 65025 * s
    /\ 65025 * s < (40 * a + 5140) * (40 * a + 5140)

\* |255 * (sqrt(s) - 20) / 40 - a| <= 1/2
IsNearestOfRamp(a, s) ==
    /\ (80 * a + 10160) * (80 * a + 10160) <= 260100 * s
    /\ 260100 * s <= (80 * a + 10240) * (80 * a + 10240)

\* the keyed alpha of every squared magnitude of the ramp
RampTable == [s \in (lower * lower + 1)..(upper * upper - 1) |-> AlphaOfDist(s)]

MonotoneAt(a, s) ==
    \A s2 \in DOMAIN RampTable :
        /\ s2 <= s => RampTable[s2] <= a
        /\ s2 >= s => RampTable[s2] >= a

\* C3 as stated: in the ramp the keyed alpha is round(255 (m - 20) / 40)
\* and does not decrease with m.
C3_RoundedRamp ==
    (pc = "crop_content" /\ InRamp(DistSq(ThePixel(img)))) =>
        /\ IsNearestOfRamp(ThePixel(new_img)[4], DistSq(ThePixel(img)))
        /\ MonotoneAt(ThePixel(new_img)[4], DistSq(ThePixel(img)))

\* C3 amended: in the ramp the keyed alpha is floor(255 (m - 20) / 40)
\* and does not decrease with m.
C3_TruncatedRamp ==
    (pc = "crop_content" /\ InRamp(DistSq(ThePixel(img)))) =>
        /\ IsFloorOfRamp(ThePixel(new_img)[4], DistSq(ThePixel(img)))
        /\ MonotoneAt(ThePixel(new_img)[4], DistSq(ThePixel(img)))

\* magnitude 30 keys to 63, where 255 * 10 / 40 = 63.75
C3_Witness ==
    /\ pc = "crop_content"
    /\ DistSq(ThePixel(img)) = 900
    /\ ThePixel(new_img)[4] = 63

\* C4: whatever the input alpha, a pixel of magnitude <= 20 is keyed to
\* alpha 0 and a pixel of magnitude >= 60 to alpha 255.
C4_Saturation ==
    pc = "crop_content" =>
        /\ DistSq(ThePixel(img)) <= 400 => ThePixel(new_img)[4] = 0
        /\ DistSq(ThePixel(img)) >= 3600 => ThePixel(new_img)[4] = 255

C4_Witness ==
    /\ pc = "crop_content"
    /\ ThePixel(img) = <<12, 16, 0, 255>>
    /\ ThePixel(new_img)[4] = 0

\* C5: only the save step writes the output file; a failure before the
\* save prints a message naming it, leaves the output file as it was and
\* ends the run.
C5_FailureBoundary ==
    [][ /\ pc # "save" => output_file' = output_file
        /\ (pc \in BeforeSave /\ pc' = "failed") =>
              /\ printed' = <<"Error", pc>>
              /\ output_file' = output_file
        /\ pc # "failed"
      ]_vars

C5_Witness ==
    /\ pc = "failed"
    /\ printed = <<"Error", "crop_final">>
    /\ output_file = OldFile

\* C6: after the scan floor(h/2) <= split_point <= h, h the height of the
\* cropped image.
C6_SplitBounds ==
    pc = "crop_text" =>
        /\ new_img.height \div 2 <= split_point
        /\ split_point <= new_img.height

\* a gap in the upper half is passed over and a later one taken
C6_Witness ==
    /\ pc = "crop_text"
    /\ split_point < new_img.height
    /\ \E y \in 0..(new_img.height \div 2 - 1) :
          Coverage(new_img, y) < 10 /\ Coverage5(new_img, y) < 50

\* the 100 x 100 image of the scenario: magnitude 100 but for black rows
\* 60..64 and 80..99
IsTheScenario(im) ==
    /\ im.width = 100 /\ im.height = 100
    /\ \A y \in 0..99 : \A x \in 1..100 :
          DistSq(im.px[y + 1][x]) =
              IF (60 <= y /\ y <= 64) \/ y >= 80 THEN 0 ELSE 10000

\* C7: on the scenario image keying makes rows 0..59 fully opaque, the
\* first crop leaves rows 60..64 with coverage 0, the split point is 60
\* and the saved image is 100 wide and 60 high.
C7_GapScenario ==
    IsTheScenario(input_file) =>
        /\ pc = "crop_content" =>
              \A y \in 1..60 : \A x \in 1..100 : new_img.px[y][x][4] = 255
        /\ pc = "scan" =>
              /\ new_img.width = 100 /\ new_img.height = 80
              /\ \A y \in 60..64 : Coverage(new_img, y) = 0
        /\ pc = "crop_text" => split_point = 60
        /\ pc \in {"print", "done"} =>
              output_file.width = 100 /\ output_file.height = 60

C7_Witness ==
    /\ IsTheScenario(input_file)
    /\ pc = "done"
    /\ output_file.height = 60

\* the box of im is its full extent: the first and last row and column
\* each hold a pixel with alpha > 0
Tight(im) ==
    /\ im.width >= 1 /\ im.height >= 1
    /\ \E x \in 1..im.width : im.px[1][x][4] > 0
    /\ \E x \in 1..im.width : im.px[im.height][x][4] > 0
    /\ \E y \in 1..im.height : im.px[y][1][4] > 0
    /\ \E y \in 1..im.height : im.px[y][im.width][4] > 0

\* C8: after either bounding-box crop an image with a pixel of alpha > 0
\* is tight, and one without has the dimensions it had before the crop.
C8_TightAfterCrop ==
    /\ pc = "scan" =>
          IF HasContent(new_img) THEN Tight(new_img)
          ELSE new_img.width = img.width /\ new_img.height = img.height
    /\ pc = "save" =>
          IF HasContent(final_logo) THEN Tight(final_logo)
          ELSE final_logo.width = new_img.width /\ final_logo.height = split_point

\* both crops removed something
C8_Witness ==
    /\ pc = "save"
    /\ HasContent(final_logo)
    /\ new_img.height < img.height
    /\ final_logo.height < split_point

SameImage(i, j) ==
    /\ i.width = j.width /\ i.height = j.height
    /\ \A y \in 1..i.height : \A x \in 1..i.width : i.px[y][x] = j.px[y][x]

\* C9: cropping an image to its bounding box twice gives the image that
\* cropping it once gives.
C9_CropIdempotent ==
    \A im \in {input_file, img, new_img, final_logo} :
        SameImage(CropToBBox(CropToBBox(im)), CropToBBox(im))

\* the crop made the image smaller on every side
C9_Witness ==
    /\ pc = "scan"
    /\ new_img.width + 2 <= img.width
    /\ new_img.height + 2 <= img.height
    /\ CropToBBox(new_img) = new_img

\* C10: when the keyed image has a pixel with alpha > 0 the split point
\* is at least 1, the rows kept above it hold such a pixel, the second
\* crop is applied and the saved image is at least 1 x 1 with such a pixel.
C10_ContentSurvives ==
    (pc \notin {"open", "key", "failed"} /\ HasContent(Keyed(img))) =>
        /\ pc \notin {"crop_content", "scan"} => split_point >= 1
        /\ pc = "crop_final" => HasContent(final_logo)
        /\ pc = "save" => Tight(final_logo)
        /\ pc \in {"print", "done"} =>
              /\ output_file.width >= 1 /\ output_file.height >= 1
              /\ HasContent(output_file)

\* a text band was cut off and the logo above it saved
C10_Witness ==
    /\ pc = "done"
    /\ split_point < new_img.height
    /\ HasContent(output_file)

====
